---------------------------- MODULE Spec2Model ----------------------------
(***************************************************************************)
(* Model of the oscillo driver, src/lase/drivers/oscillo.py (class         *)
(* Oscillo): the averaging configuration, the acquisition get_adc, the     *)
(* failure flag _is_failed and the amplitude transfer function.            *)
(*                                                                         *)
(* The device (self.lase_base.dvm) is the environment: what read_buffer    *)
(* and read return is drawn from small sets.  get_adc is modelled line by  *)
(* line (pc holds the line about to run) so that the order of its device   *)
(* operations is visible; every other method is one action.  The driver is *)
(* single-threaded, so no method starts while get_adc is running.          *)
(*                                                                         *)
(* Numbers are NumPy float64 values: a finite value is kept as an exact    *)
(* fraction n/d (d > 0, lowest terms), next to nan and +/-inf, with the    *)
(* IEEE-754 rules for the special cases (x/0, inf-inf, 0*inf, mod of inf). *)
(* Rounding is not modelled.  TLC's integers are 32 bits wide, so the      *)
(* register word is WordBits wide instead of 32: 2**31 is Half and 2**32   *)
(* is Full.                                                                *)
(***************************************************************************)
EXTENDS Integers, Sequences, FiniteSets, TLC

\* ------------------------------------------------------------- bounds
\* Width of a register word in the model (32 in the source, line 72).
WordBits == 6
\* Samples per channel buffer (n = 8192 in the source, line 14).
NSamples == 2
\* Bins of the amplitude transfer function (lase_base.sampling.n, line 34).
NBins == 2
\* Largest transfer_avg passed to get_amplitude_transfer_function and
\* largest n_avg passed to get_avg_spectrum.
MaxTrials == 2

\* The two ADC channels: np.zeros((2, n)), np.zeros(2).
NChannels == 2

Half == 2 ^ (WordBits - 1)
Full == 2 ^ WordBits
Channels == 0 .. (NChannels - 1)
Samples == 0 .. (NSamples - 1)
Bins == 0 .. (NBins - 1)

\* ------------------------------------------------------ float64 values
Abs(i) == IF i < 0 THEN -i ELSE i

Sign(i) == IF i < 0 THEN -1 ELSE IF i = 0 THEN 0 ELSE 1

RECURSIVE GCD(_, _)
GCD(a, b) == IF b = 0 THEN a ELSE GCD(b, a % b)

\* The finite value n/d, d # 0, in lowest terms with a positive denominator.
Frac(n, d) ==
    LET g == GCD(Abs(n), Abs(d))
    IN  [k |-> "fin", n |-> (Sign(d) * n) \div g, d |-> Abs(d) \div g]

Fin(i) == [k |-> "fin", n |-> i, d |-> 1]
NaN == [k |-> "nan", n |-> 0, d |-> 1]
Inf(s) == [k |-> "inf", n |-> s, d |-> 1]

\* np.isnan
IsNaN(v) == v.k = "nan"

IsFin(v) == v.k = "fin"

\* a - b
FSub(a, b) ==
    CASE IsNaN(a) \/ IsNaN(b) -> NaN
      [] a.k = "inf" /\ b.k = "inf" -> IF a.n = b.n THEN NaN ELSE a
      [] a.k = "inf" -> a
      [] b.k = "inf" -> Inf(-b.n)
      [] OTHER -> Frac(a.n * b.d - b.n * a.d, a.d * b.d)

\* a * b
FMul(a, b) ==
    CASE IsNaN(a) \/ IsNaN(b) -> NaN
      [] a.k = "inf" \/ b.k = "inf" ->
            IF a.n = 0 \/ b.n = 0 THEN NaN ELSE Inf(Sign(a.n) * Sign(b.n))
      [] OTHER -> Frac(a.n * b.n, a.d * b.d)

\* a / b; NumPy does not raise on a zero divisor: x/0 is +/-inf, 0/0 is nan.
FDiv(a, b) ==
    CASE IsNaN(a) \/ IsNaN(b) -> NaN
      [] a.k = "inf" /\ b.k = "inf" -> NaN
      [] a.k = "inf" -> Inf(IF b.n < 0 THEN -a.n ELSE a.n)
      [] b.k = "inf" -> Fin(0)
      [] b.n = 0 -> IF a.n = 0 THEN NaN ELSE Inf(Sign(a.n))
      [] OTHER -> Frac(a.n * b.d, a.d * b.n)

\* np.mod(a, m) for an integer m > 0: the result has the sign of m.
FMod(a, m) ==
    CASE IsNaN(a) -> NaN
      [] a.k = "inf" -> NaN
      [] OTHER -> Frac(a.n % (m * a.d), a.d)


\* ---------------------------------------------------------------- state
VARIABLES
    avg_on,      \* self.avg_on
    config,      \* the bits of lase_base._config the driver drives: avg1 and
                 \* avg2 (bit 0 at _avg1_off, _avg2_off), addr (bit 1 at _addr_off)
    adc,         \* self.adc[c][i]
    adc_offset,  \* self.adc_offset[c]
    optical_power, \* self.optical_power[c]
    power,       \* self.power[c]
    is_failed,   \* self._is_failed: "undefined" while the attribute does not
                 \* exist, else "True" or "False"
    amplitude_transfer_function, \* self.amplitude_transfer_function[b]
    pc,          \* "idle", or the line of get_adc about to run
    raw,         \* what read_buffer returned in the latest get_adc
    n_avg1,      \* the local n_avg1 of the latest get_adc: <<>> until read
    log,         \* the device operations of the latest get_adc, in order,
                 \* each with the value of the addr bit when it ran
    exc          \* the exception the latest method call raised, if any

vars == <<avg_on, config, adc, adc_offset, optical_power, power, is_failed,
          amplitude_transfer_function, pc, raw, n_avg1, log, exc>>

\* ----------------------------------------------------------- environment
\* A sample the device returns is a register word in 0 .. Full-1, or the
\* not-a-number a failed reception leaves.
\* A buffer whose first sample is v and whose other samples are w.
Buffer(v, w) == [i \in Samples |-> IF i = 0 THEN v ELSE w]

\* Buffers read_buffer may return: all zero, all 8, words of the upper half
\* (which the remap makes negative), a not-a-number first sample, and a
\* not-a-number that is not in the first sample.
RawBuffers ==
    { Buffer(Fin(0), Fin(0)), Buffer(Fin(8), Fin(8)),
      Buffer(Fin(Half), Fin(Full - 1)), Buffer(NaN, Fin(8)),
      Buffer(Fin(8), NaN) }

\* Values the averaging-count status register may read.
AvgCounts == {0, 2, 4}

\* Calibrations a caller may install for one channel (the attributes
\* adc_offset, optical_power and power are plain public fields).
Calibrations ==
    { [offset |-> Fin(0), optical_power |-> Fin(1), power |-> Fin(1)],
      [offset |-> Fin(3), optical_power |-> Fin(3), power |-> Fin(2)] }

\* Transfer functions a caller may install.
TFValues == {Fin(0), NaN}

TFInputs == {[b \in Bins |-> v] : v \in TFValues}

Entry(op) == [op |-> op, addr |-> config.addr]

\* No exception: the call returned.
Returned == [type |-> "none", method |-> "none"]

Raised(type, method) == [type |-> type, method |-> method]

\* ------------------------------------------------------------ operations
\* __init__, lines 12-45: the fields as assigned, then reset().  What
\* Lase.__init__ and Lase.reset leave in the addr bit is not known here.
Init ==
    /\ avg_on = FALSE
    /\ config \in {[avg1 |-> TRUE, avg2 |-> TRUE, addr |-> a] : a \in BOOLEAN}
    /\ adc = [c \in Channels |-> [i \in Samples |-> Fin(0)]]
    /\ adc_offset = [c \in Channels |-> Fin(0)]
    /\ optical_power = [c \in Channels |-> Fin(1)]
    /\ power = [c \in Channels |-> Fin(1)]
    /\ is_failed = "undefined"
    /\ amplitude_transfer_function = [b \in Bins |-> Fin(1)]
    /\ pc = "idle"
    /\ raw = [c \in Channels |-> [i \in Samples |-> Fin(0)]]
    /\ n_avg1 = <<>>
    /\ log = <<>>
    /\ exc = Returned

\* AveragingBits with the second clear_bit (line 56) forgotten.
AveragingBitsFirstChannelOnly(cfg, on) ==
    IF on
    THEN [cfg EXCEPT !.avg1 = FALSE]
    ELSE [cfg EXCEPT !.avg1 = TRUE, !.avg2 = TRUE]

\* set_averaging's effect on the register, lines 54-59: clear both bits to
\* average, set both not to.
AveragingBits(cfg, on) ==
    IF on
    THEN [cfg EXCEPT !.avg1 = FALSE, !.avg2 = FALSE]
    ELSE [cfg EXCEPT !.avg1 = TRUE, !.avg2 = TRUE]

\* set_averaging(avg_on), lines 52-59.
SetAveraging(on) ==
    /\ pc = "idle"
    /\ avg_on' = on
    /\ config' = AveragingBits(config, on)
    /\ exc' = Returned
    /\ UNCHANGED <<adc, adc_offset, optical_power, power, is_failed,
                   amplitude_transfer_function, pc, raw, n_avg1, log>>

\* self.lase_base.reset(), line 48: the base driver's reset, whose effect on
\* the config bits is not constrained.
LaseBaseReset(cfg) == [avg1 : BOOLEAN, avg2 : BOOLEAN, addr : BOOLEAN]

\* Reset that also clears the failure flag.
ResetClearingFlag ==
    /\ pc = "idle"
    /\ avg_on' = FALSE
    /\ \E cfg \in LaseBaseReset(config) : config' = AveragingBits(cfg, FALSE)
    /\ is_failed' = "False"
    /\ exc' = Returned
    /\ UNCHANGED <<adc, adc_offset, optical_power, power,
                   amplitude_transfer_function, pc, raw, n_avg1, log>>

\* reset(), lines 47-50.
Reset ==
    /\ pc = "idle"
    /\ avg_on' = FALSE
    /\ \E cfg \in LaseBaseReset(config) : config' = AveragingBits(cfg, FALSE)
    /\ exc' = Returned
    /\ UNCHANGED <<adc, adc_offset, optical_power, power, is_failed,
                   amplitude_transfer_function, pc, raw, n_avg1, log>>

\* A caller assigns the calibration of channel c (fields of lines 41-43).
SetCalibration(c, cal) ==
    /\ pc = "idle"
    /\ adc_offset' = [adc_offset EXCEPT ![c] = cal.offset]
    /\ optical_power' = [optical_power EXCEPT ![c] = cal.optical_power]
    /\ power' = [power EXCEPT ![c] = cal.power]
    /\ UNCHANGED <<avg_on, config, adc, is_failed, amplitude_transfer_function,
                   pc, raw, n_avg1, log, exc>>

\* get_adc, lines 62-63: set the addr bit, sleep.
GetAdcStrobe ==
    /\ pc = "idle"
    /\ config' = [config EXCEPT !.addr = TRUE]
    /\ log' = <<Entry("set_bit(addr)")>>
    /\ n_avg1' = <<>>
    /\ pc' = "l64"
    /\ exc' = Returned
    /\ UNCHANGED <<avg_on, adc, adc_offset, optical_power, power, is_failed,
                   amplitude_transfer_function, raw>>

\* get_adc, lines 64-65: read both channel buffers into self.adc.
GetAdcReadBuffers ==
    /\ pc = "l64"
    /\ \E b1 \in RawBuffers, b2 \in RawBuffers :
          /\ raw' = [c \in Channels |-> IF c = 0 THEN b1 ELSE b2]
          /\ adc' = raw'
    /\ log' = log \o <<Entry("read_buffer(adc_1)"), Entry("read_buffer(adc_2)")>>
    /\ pc' = "l68"
    /\ UNCHANGED <<avg_on, config, adc_offset, optical_power, power, is_failed,
                   amplitude_transfer_function, n_avg1, exc>>

\* ReceptionFailed looking at channel 0 only.
ReceptionFailedChannel0Only(a) == IsNaN(a[0][0])

\* line 68: the reception check looks at the first sample of each channel.
ReceptionFailed(a) == IsNaN(a[0][0]) \/ IsNaN(a[1][0])

\* line 72: np.mod(self.adc - 2**31, 2**32) - 2**31, on every sample.
Unwrap(a) ==
    [c \in Channels |->
        [i \in Samples |-> FSub(FMod(FSub(a[c][i], Fin(Half)), Full), Fin(Half))]]

\* get_adc, lines 68-72: on a failed reception set _is_failed and return;
\* otherwise remap the words to signed values.
GetAdcCheck ==
    /\ pc = "l68"
    /\ IF ReceptionFailed(adc)
       THEN /\ is_failed' = "True"
            /\ adc' = adc
            /\ pc' = "idle"
            /\ exc' = Returned
       ELSE /\ adc' = Unwrap(adc)
            /\ pc' = "l74"
            /\ UNCHANGED <<is_failed, exc>>
    /\ UNCHANGED <<avg_on, config, adc_offset, optical_power, power,
                   amplitude_transfer_function, raw, n_avg1, log>>

\* line 77: self.adc /= np.float(n_avg1).
Averaged(a, n) == [c \in Channels |-> [i \in Samples |-> FDiv(a[c][i], Fin(n))]]

\* GetAdcAverage reading the count register whether or not averaging is on.
GetAdcAverageAlwaysReads ==
    /\ pc = "l74"
    /\ \E n \in AvgCounts :
          /\ n_avg1' = <<n>>
          /\ adc' = IF avg_on THEN Averaged(adc, n) ELSE adc
          /\ log' = Append(log, Entry("read(n_avg1)"))
    /\ pc' = "l79"
    /\ UNCHANGED <<avg_on, config, adc_offset, optical_power, power, is_failed,
                   amplitude_transfer_function, raw, exc>>

\* get_adc, lines 74-77: when averaging, read the count and divide by it.
GetAdcAverage ==
    /\ pc = "l74"
    /\ IF avg_on
       THEN \E n \in AvgCounts :
               /\ n_avg1' = <<n>>
               /\ adc' = Averaged(adc, n)
               /\ log' = Append(log, Entry("read(n_avg1)"))
       ELSE UNCHANGED <<n_avg1, adc, log>>
    /\ pc' = "l79"
    /\ UNCHANGED <<avg_on, config, adc_offset, optical_power, power, is_failed,
                   amplitude_transfer_function, raw, exc>>

\* Calibrated with the gain applied before the offset is subtracted.
CalibratedGainFirst(a) ==
    [c \in Channels |->
        [i \in Samples |->
            FSub(FMul(a[c][i], FDiv(optical_power[c], power[c])), adc_offset[c])]]

\* lines 80-83: subtract the channel's offset, then multiply by its gain
\* optical_power / power.
Calibrated(a) ==
    [c \in Channels |->
        [i \in Samples |->
            FMul(FSub(a[c][i], adc_offset[c]), FDiv(optical_power[c], power[c]))]]

\* get_adc, lines 79-83: clear the addr bit, then calibrate.
GetAdcFinish ==
    /\ pc = "l79"
    /\ log' = Append(log, Entry("clear_bit(addr)"))
    /\ config' = [config EXCEPT !.addr = FALSE]
    /\ adc' = Calibrated(adc)
    /\ pc' = "idle"
    /\ exc' = Returned
    /\ UNCHANGED <<avg_on, adc_offset, optical_power, power, is_failed,
                   amplitude_transfer_function, raw, n_avg1>>

\* The attributes an Oscillo instance has: the fields __init__ assigns (lines
\* 15-43), _is_failed once line 69 has run, and the methods of the class.
\* Oscillo has no base class and defines no __getattr__: the base driver is
\* the field lase_base, and sampling, dac and set_dac are attributes of it.
HasAttr(name) ==
    \/ name \in {"lase_base", "_avg_off", "_adc_1", "_adc_2", "avg_on", "adc",
                 "spectrum", "avg_spectrum", "ideal_amplitude_waveform",
                 "amplitude_transfer_function", "gaussian_filter",
                 "adc_offset", "optical_power", "power"}
    \/ name \in {"reset", "set_averaging", "get_adc", "_white_noise",
                 "get_amplitude_transfer_function", "get_correction",
                 "optimize_amplitude", "get_spectrum", "get_avg_spectrum",
                 "set_amplitude_transfer_function"}
    \/ name = "_is_failed" /\ is_failed # "undefined"

\* set_amplitude_transfer_function(tf), lines 139-140.
SetAmplitudeTransferFunction(tf) ==
    /\ pc = "idle"
    /\ amplitude_transfer_function' = tf
    /\ exc' = Returned
    /\ UNCHANGED <<avg_on, config, adc, adc_offset, optical_power, power,
                   is_failed, pc, raw, n_avg1, log>>

\* get_amplitude_transfer_function(transfer_avg = trials), lines 99-114.
\* Line 101 reads self.sampling, which the instance does not have: the call
\* raises AttributeError there and lines 102-114 (the accumulator *= 0, the
\* loop, the division by transfer_avg, bin 0 := 1) do not run.
GetAmplitudeTransferFunction(trials) ==
    /\ pc = "idle"
    /\ ~HasAttr("sampling")
    /\ exc' = Raised("AttributeError", "get_amplitude_transfer_function")
    /\ UNCHANGED <<avg_on, config, adc, adc_offset, optical_power, power,
                   is_failed, amplitude_transfer_function, pc, raw, n_avg1, log>>

\* get_spectrum(), lines 126-128: line 127 computes a local; line 128 reads
\* self.sampling and raises AttributeError before self.spectrum is assigned.
GetSpectrum ==
    /\ pc = "idle"
    /\ ~HasAttr("sampling")
    /\ exc' = Raised("AttributeError", "get_spectrum")
    /\ UNCHANGED <<avg_on, config, adc, adc_offset, optical_power, power,
                   is_failed, amplitude_transfer_function, pc, raw, n_avg1, log>>

\* get_avg_spectrum(n_avg), lines 130-137: line 131 reads self.sampling and
\* raises AttributeError; the loop calling get_adc does not run.
GetAvgSpectrum(n_avg) ==
    /\ pc = "idle"
    /\ ~HasAttr("sampling")
    /\ exc' = Raised("AttributeError", "get_avg_spectrum")
    /\ UNCHANGED <<avg_on, config, adc, adc_offset, optical_power, power,
                   is_failed, amplitude_transfer_function, pc, raw, n_avg1, log>>

Next ==
    \/ \E on \in BOOLEAN : SetAveraging(on)
    \/ Reset
    \/ \E c \in Channels, cal \in Calibrations : SetCalibration(c, cal)
    \/ GetAdcStrobe
    \/ GetAdcReadBuffers
    \/ GetAdcCheck
    \/ GetAdcAverage
    \/ GetAdcFinish
    \/ \E tf \in TFInputs : SetAmplitudeTransferFunction(tf)
    \/ \E trials \in 1 .. MaxTrials : GetAmplitudeTransferFunction(trials)
    \/ GetSpectrum
    \/ \E n_avg \in 1 .. MaxTrials : GetAvgSpectrum(n_avg)

Spec == Init /\ [][Next]_vars

\* ---------------------------------------------------------------- claims
\* How the latest get_adc ended, read off the device operations it made: it
\* returned at line 70 after the two buffer reads, or ran to line 83 and
\* made clear_bit its last operation.
ReturnedAtLine70 == pc = "idle" /\ Len(log) = 3

ReturnedAtLine83 == pc = "idle" /\ Len(log) >= 4

LogOps == [i \in 1 .. Len(log) |-> log[i].op]

IsPrefix(s, t) == Len(s) <= Len(t) /\ \A i \in 1 .. Len(s) : s[i] = t[i]

FirstSampleNaN == IsNaN(raw[0][0]) \/ IsNaN(raw[1][0])

\* C1: whenever get_adc returns, on the normal path and on every fault path,
\* the addr (strobe) bit it set at line 62 is clear again.
C1_StrobeClearedOnReturn ==
    [][(pc # "idle" /\ pc' = "idle") => ~config'.addr]_vars

\* C2: when the first sample of either channel read is not-a-number, get_adc
\* sets the failure flag, returns without raising and skips every later step:
\* no remap, no read of the averaging count and no division, no offset/gain,
\* so both buffers hold exactly what was read.
C2_FaultSkipsCorrection ==
    /\ (FirstSampleNaN /\ pc = "idle" /\ log # <<>>) =>
          /\ is_failed = "True"
          /\ adc = raw
          /\ n_avg1 = <<>>
          /\ LogOps = <<"set_bit(addr)", "read_buffer(adc_1)", "read_buffer(adc_2)">>
    /\ FirstSampleNaN => pc \in {"idle", "l64", "l68"}
    /\ exc.method # "get_adc"

C2_Witness ==
    /\ ReturnedAtLine70
    /\ IsNaN(raw[1][0]) /\ ~IsNaN(raw[0][0])
    /\ raw[0][0] = Fin(Half)
    /\ avg_on
    /\ adc_offset[0] = Fin(3)
    /\ adc = raw
    /\ is_failed = "True"

\* C3: with averaging enabled and an averaging count of zero, the buffers
\* never hold an infinity or a not-a-number made by the division: every
\* sample is finite, or is a not-a-number that was read from the device.
C3_ZeroCountIsFault ==
    (n_avg1 = <<0>>) =>
        \A c \in Channels, i \in Samples :
            IsFin(adc[c][i]) \/ (IsNaN(adc[c][i]) /\ IsNaN(raw[c][i]))

\* C4: the two averaging bits always agree, and avg_on is true exactly when
\* both are clear.
C4_AveragingConsistent ==
    /\ config.avg1 = config.avg2
    /\ avg_on <=> (~config.avg1 /\ ~config.avg2)
    /\ ~avg_on <=> (config.avg1 /\ config.avg2)

C4_Witness == avg_on /\ ~config.avg1 /\ ~config.avg2 /\ exc = Returned

\* The register word w as a signed value: w below Half stays, w from Half
\* on becomes w - Full.
Signed(w) == IF w < Half THEN w ELSE w - Full

\* The count the latest get_adc divided by: 1 when it did not average.
Count == IF n_avg1 = <<>> THEN 1 ELSE n_avg1[1]

\* v = (u / cnt - off) * (op / p), by cross-multiplication of the fractions.
EqualsCorrected(v, u, cnt, off, op, p) ==
    /\ IsFin(v)
    /\ v.n * (cnt * off.d * op.d * p.n) = (u * off.d - off.n * cnt) * op.n * p.d * v.d

\* C5: for a capture that is no fault (its first samples are numbers, the
\* count is not zero), each sample of channel c that get_adc leaves is
\* (signed(raw) / count - offset[c]) * (optical_power[c] / power[c]), count
\* being 1 without averaging, and the signed value lies in [-Half, Half).
C5_CorrectedSamples ==
    /\ [](pc = "l74" =>
            \A c \in Channels, i \in Samples :
                IsFin(raw[c][i]) =>
                    /\ adc[c][i] = Fin(Signed(raw[c][i].n))
                    /\ -Half <= adc[c][i].n /\ adc[c][i].n < Half)
    /\ [][(pc = "l79" /\ pc' = "idle" /\ Count # 0) =>
            \A c \in Channels, i \in Samples :
                IF IsFin(raw[c][i])
                THEN EqualsCorrected(adc'[c][i], Signed(raw[c][i].n), Count,
                                     adc_offset[c], optical_power[c], power[c])
                ELSE IsNaN(adc'[c][i])]_vars

C5_Witness ==
    /\ ReturnedAtLine83
    /\ n_avg1 = <<4>>
    /\ raw[0][0] = Fin(8) /\ raw[1][0] = Fin(Half)
    /\ adc_offset[0] = Fin(3) /\ optical_power[0] = Fin(3) /\ power[0] = Fin(2)
    /\ adc_offset[1] = Fin(0) /\ optical_power[1] = Fin(1) /\ power[1] = Fin(1)
    /\ adc[0][0] = Frac(-3, 2)
    /\ adc[1][0] = Fin(-(Half \div 4))

\* C6: the failure flag is defined and false in every state in which no
\* capture has faulted (the flag is "True" exactly after a fault), and on a
\* controller with averaging off, offsets 0 and gains 1 a capture of zero
\* samples leaves all-zero buffers and the flag false.
C6_FlagFalseUntilFault ==
    /\ is_failed # "True" => is_failed = "False"
    /\ (/\ ReturnedAtLine83
        /\ n_avg1 = <<>>
        /\ \A c \in Channels, i \in Samples : raw[c][i] = Fin(0)
        /\ \A c \in Channels :
              adc_offset[c] = Fin(0) /\ optical_power[c] = power[c]) =>
          /\ \A c \in Channels, i \in Samples : adc[c][i] = Fin(0)
          /\ is_failed = "False"

\* C7: once the failure flag is set no step sets it back, and a capture whose
\* reception check fails returns: it is not read again.
C7_FlagSticky ==
    [][/\ is_failed = "True" => is_failed' = "True"
       /\ (pc = "l68" /\ FirstSampleNaN) => (pc' = "idle" /\ raw' = raw)]_vars

C7_Witness ==
    /\ is_failed = "True"
    /\ ReturnedAtLine83
    /\ ~avg_on
    /\ exc.method = "get_amplitude_transfer_function"

\* C8: after a call of get_amplitude_transfer_function with transfer_avg >= 1
\* has ended, bin 0 of the transfer function is exactly 1.
C8_Bin0IsOne ==
    (exc.method = "get_amplitude_transfer_function") =>
        amplitude_transfer_function[0] = Fin(1)

\* C9: the device operations of one get_adc are, in order, set_bit(addr),
\* the two buffer reads, the read of the averaging count when averaging is
\* on (none when it is off), clear_bit(addr); every operation after the
\* set_bit, the count read included, runs with the addr bit set.
C9_OperationOrder ==
    /\ \/ IsPrefix(LogOps, <<"set_bit(addr)", "read_buffer(adc_1)",
                             "read_buffer(adc_2)", "read(n_avg1)",
                             "clear_bit(addr)">>)
       \/ IsPrefix(LogOps, <<"set_bit(addr)", "read_buffer(adc_1)",
                             "read_buffer(adc_2)", "clear_bit(addr)">>)
    /\ \A i \in 2 .. Len(log) : log[i].addr
    /\ pc \in {"l64", "l68", "l74", "l79"} => config.addr
    /\ pc = "l79" => (avg_on <=> \E i \in 1 .. Len(log) : log[i].op = "read(n_avg1)")
    /\ (n_avg1 # <<>>) <=> (\E i \in 1 .. Len(log) : log[i].op = "read(n_avg1)")

C9_Witness ==
    /\ ReturnedAtLine83
    /\ Len(log) = 5
    /\ log[4] = [op |-> "read(n_avg1)", addr |-> TRUE]
    /\ log[5] = [op |-> "clear_bit(addr)", addr |-> TRUE]
    /\ ~config.addr

\* C10: the transfer function a call of get_amplitude_transfer_function
\* leaves does not depend on the value held before the call.  The call makes
\* no capture, so a not-a-number bin after it is the earlier value.
C10_NoCarryOver ==
    (exc.method = "get_amplitude_transfer_function") =>
        \A b \in Bins : ~IsNaN(amplitude_transfer_function[b])

=============================================================================
